---- MODULE Spec2Model ----
(***************************************************************************)
(* The download queue of RomPi (src/app.py): the job list download_queue,  *)
(* its lock and persisted copy, the request handlers queue_add,            *)
(* queue_start, queue_stop and queue_clear, the background worker          *)
(* process_queue, and the aria2 engine it drives.                          *)
(*                                                                         *)
(* Request handlers are whole-handler actions (their trailing save_queue   *)
(* included).  The worker is one thread whose position is pc; each of its  *)
(* actions is the code between two points where another thread can run (a  *)
(* lock release, an RPC, a sleep).                                         *)
(***************************************************************************)
EXTENDS Integers, Sequences, FiniteSets, TLC

\* ------------------------------------------------------------------ bounds
\* Transfer handles (gids) the engine hands out in one run.
MaxGid == 2

\* ------------------------------------------------------- program constants
MAX_QUEUE_SIZE == 20
\* range(current_server + 1, 21): the mirror loop's exclusive upper end.
ServerRangeEnd == 21
\* "current_server": 1 -- the worker always dispatches to dl1 first.
FirstServer == 1

VARIABLES
    download_queue,     \* the in-memory job list
    queue_processing,   \* the worker's run flag
    queue_lock,         \* "free", or "worker" while the worker holds it
    disk,               \* the items of QUEUE_FILE ("absent" file = <<>>)
    pc,                 \* the worker thread's position ("dead": no thread)
    current_item,       \* the worker's current_item (its own view of the dict)
    gid,                \* the worker's local gid
    new_gid,            \* the mirror loop's new_gid
    file_path,          \* the worker's local filename / file_path
    server_num,         \* the mirror loop's server_num
    working_server,     \* the mirror loop's working_server (set or not)
    servers_tried,      \* the mirror loop's servers_tried
    retry_reason,       \* the classification of the first error
    aria2,              \* the engine: gid -> transfer
    files,              \* the download directory, where a specification follows it
    response            \* the last answer to a request or line of the worker's
                        \* log, where a specification follows them
                        \* ("unobserved" where not)

vars == <<download_queue, queue_processing, queue_lock, disk, pc, current_item,
          gid, new_gid, file_path, server_num, working_server, servers_tried,
          retry_reason, aria2, files, response>>

wvars == <<current_item, gid, new_gid, file_path, server_num, working_server,
           servers_tried, retry_reason>>

\* ------------------------------------------------------------------ values
None == 0
Gids == 1..MaxGid

\* A URL as the code reads it: its scheme, whether "vimm.net" occurs in it,
\* the N of a dlN.vimm.net host (0: another host) and the mediaId= number
\* (0: none).
Url(scheme, vimm, server, media) ==
    [scheme |-> scheme, vimm |-> vimm, server |-> server, media |-> media]

\* f"https://dl{server_num}.vimm.net/?mediaId={media_id}"
MirrorUrl(server, media) == Url("https", TRUE, server, media)

\* A text is the sequence of its characters.
GameTitle == <<"G", "a", "m", "e">>
\* The string of a text.
RECURSIVE Text(_)
Text(cs) == IF cs = <<>> THEN "" ELSE Head(cs) \o Text(Tail(cs))

\* str.rstrip() and str.strip(): the text without the white space at its end,
\* at both ends.
RECURSIVE RStrip(_)
RStrip(cs) ==
    IF cs # <<>> /\ cs[Len(cs)] = " " THEN RStrip(SubSeq(cs, 1, Len(cs) - 1)) ELSE cs
RECURSIVE Strip(_)
Strip(cs) == IF cs # <<>> /\ Head(cs) = " " THEN Strip(Tail(cs)) ELSE RStrip(cs)

\* "c.isalnum() or c in (' ', '-', '_', '.')"
SafeChar(c) == c \in {"G", "a", "m", "e"} \/ c \in {" ", "-", "_", "."}
\* The title trimmed to the characters of a file name (line 1364).
SafeTitle(title) == RStrip(SelectSeq(title, SafeChar))
\* safe_title, "download" when nothing of the title is left (lines 1364-1366).
SafeName(title) == IF SafeTitle(title) = <<>> THEN "download" ELSE Text(SafeTitle(title))

NoError == [kind |-> "none", tried |-> <<>>, detail |-> ""]
NoFile == [base |-> "", ext |-> ""]
NoItem == [download_url |-> Url("", FALSE, 0, 0), title |-> <<>>]

\* The mirrors attempted for a dict are followed for the dicts of a loaded
\* store that asks for it, and not for those queue_add appends.
NoHistory == [followed |-> FALSE, mirrors |-> <<>>]

\* The dict queue_add appends.  ref, sel and attempts are not fields of the
\* dict: ref marks the dict the worker's current_item refers to, sel the dict
\* the worker picked at the top of its current iteration (lines 1301-1306),
\* attempts holds the mirrors dispatched to or probed while the dict was the
\* worker's pick.
NewJob(url, title, page) ==
    [download_url |-> url, title |-> title, game_page_url |-> page,
     completed |-> FALSE, downloading |-> FALSE, gid |-> None,
     filename |-> NoFile, error |-> NoError, ref |-> FALSE, sel |-> FALSE,
     attempts |-> NoHistory]

\* json.dump of the items: every field of each dict, and nothing of the
\* worker's references.
Serialize(q) == [i \in DOMAIN q |-> [q[i] EXCEPT !.ref = FALSE, !.sel = FALSE]]

\* ----------------------------------------------------------------- helpers
\* The first of the indexes a loop over the list matches, 0 when it matches
\* none ("for idx, item in enumerate(download_queue): if ...: ...; break").
FirstIndex(matches) ==
    IF matches = {} THEN 0
    ELSE CHOOSE i \in matches : \A j \in matches : i <= j

FirstByUrl(q, url) == FirstIndex({i \in DOMAIN q : q[i].download_url = url})
FirstByGid(q, g) == FirstIndex({i \in DOMAIN q : q[i].gid = g})

\* current_item = download_queue[idx]: the reference moves to item idx.
Refer(q, idx) == [i \in DOMAIN q |-> [q[i] EXCEPT !.ref = (i = idx)]]
\* current_item = None; the pick of the iteration before stays marked until
\* the next pick when the iteration left it unfinished.
Unrefer(q) ==
    [i \in DOMAIN q |-> [q[i] EXCEPT !.ref = FALSE, !.sel = @ /\ ~q[i].completed]]
\* No pick: no item passes the test of lines 1302-1304.
Unpick(q) == [i \in DOMAIN q |-> [q[i] EXCEPT !.ref = FALSE, !.sel = FALSE]]
\* A pick that clears the errors of the store for another try.
PickClearingErrors(q, idx) ==
    [i \in DOMAIN q |-> [q[i] EXCEPT !.ref = (i = idx), !.sel = (i = idx), !.error = NoError]]
\* current_item = item, the first pending one
Pick(q, idx) == [i \in DOMAIN q |-> [q[i] EXCEPT !.ref = (i = idx), !.sel = (i = idx)]]

View(item) == [download_url |-> item.download_url, title |-> item.title]

Increasing(ms) == \A k \in 1..(Len(ms) - 1) : ms[k] < ms[k + 1]

\* The mirrors ms were dispatched to or probed for the worker's pick.  A
\* history is followed up to the first mirror that is not above the one
\* before it.
Attempt(q, ms) ==
    [i \in DOMAIN q |->
        IF q[i].sel /\ q[i].attempts.followed /\ Increasing(q[i].attempts.mirrors)
        THEN [q[i] EXCEPT !.attempts.mirrors = @ \o ms]
        ELSE q[i]]

\* ------------------------------------------------------------------ inputs
Titles == {<<>>, GameTitle}
Pages == {"page"}
\* The mediaId of the code's example, "https://dl3.vimm.net/?mediaId=63374".
MediaIds == {63374}
\* What a request can carry as download_url: nothing, a non-http string, an
\* http URL of another site, and the download URLs of mirrors 2 and 3.
RequestUrls ==
    {Url("", FALSE, 0, 0), Url("ftp", TRUE, 3, 63374), Url("https", FALSE, 0, 63374)}
    \cup {MirrorUrl(s, m) : s \in {2, 3}, m \in MediaIds}
\* A request may also repeat the URL of any job in the queue.
QueueUrls == {download_queue[i].download_url : i \in DOMAIN download_queue}

FileName(base, ext) == [base |-> base, ext |-> ext]
\* The first bytes of a file, or that there is no file.
Contents == {"absent", "PK", "7z", "other"}
\* The names in the download directory.
FileNames == {FileName("Game", e) : e \in {".7z", ".zip", ".ZIP"}}
FileSystems == [FileNames -> Contents]

\* -------------------------------------------------------------------- Init
NoTransfer == [status |-> "none", errorCode |-> "", errorMessage |-> ""]

Init ==
    /\ download_queue = <<>>
    /\ queue_processing = FALSE
    /\ queue_lock = "free"
    /\ disk = <<>>
    /\ pc = "dead"
    /\ current_item = NoItem
    /\ gid = None
    /\ new_gid = None
    /\ file_path = NoFile
    /\ server_num = 0
    /\ working_server = FALSE
    /\ servers_tried = <<>>
    /\ retry_reason = ""
    /\ aria2 = [g \in Gids |-> NoTransfer]
    /\ files = [n \in FileNames |-> "absent"]
    /\ response = "unobserved"

\* ---------------------------------------------------------------- requests
\* A handler's answer (its flash message or JSON error) as the next response.
Answer(msg) == IF response = "unobserved" THEN response ELSE msg

\* ---------------------------------------------------------------- queue_add
\* queue_add without its check for a URL that is already queued.
AddVerdictNoDuplicateCheck(q, url, title) ==
    IF url.scheme \notin {"http", "https"} THEN "Invalid download URL"
    ELSE IF title = <<>> THEN "Title is required"
    ELSE IF ~url.vimm THEN "Queue is only for Vimm's Lair downloads"
    ELSE IF Len(q) >= MAX_QUEUE_SIZE THEN "Queue is full"
    ELSE "ok"

\* queue_add with "len(download_queue) > MAX_QUEUE_SIZE" for its size check.
AddVerdictOffByOne(q, url, title) ==
    IF url.scheme \notin {"http", "https"} THEN "Invalid download URL"
    ELSE IF title = <<>> THEN "Title is required"
    ELSE IF ~url.vimm THEN "Queue is only for Vimm's Lair downloads"
    ELSE IF Len(q) > MAX_QUEUE_SIZE THEN "Queue is full"
    ELSE IF \E i \in DOMAIN q : q[i].download_url = url THEN "already in the queue"
    ELSE "ok"

\* queue_add without its size check.
AddVerdictNoSizeCheck(q, url, title) ==
    IF url.scheme \notin {"http", "https"} THEN "Invalid download URL"
    ELSE IF title = <<>> THEN "Title is required"
    ELSE IF ~url.vimm THEN "Queue is only for Vimm's Lair downloads"
    ELSE IF \E i \in DOMAIN q : q[i].download_url = url THEN "already in the queue"
    ELSE "ok"

\* The answer queue_add gives, in the order of its checks.
AddVerdict(q, url, title) ==
    IF url.scheme \notin {"http", "https"} THEN "Invalid download URL"
    ELSE IF title = <<>> THEN "Title is required"
    ELSE IF ~url.vimm THEN "Queue is only for Vimm's Lair downloads"
    ELSE IF Len(q) >= MAX_QUEUE_SIZE THEN "Queue is full"
    ELSE IF \E i \in DOMAIN q : q[i].download_url = url THEN "already in the queue"
    ELSE "ok"

QueueAdd(url, title, page) ==
    /\ queue_lock = "free"
    /\ IF AddVerdict(download_queue, url, Strip(title)) = "ok"
       THEN /\ download_queue' =
                  Append(download_queue, NewJob(url, Strip(title), page))
            /\ disk' = Serialize(download_queue')
       ELSE UNCHANGED <<download_queue, disk>>
    /\ response' = Answer(AddVerdict(download_queue, url, Strip(title)))
    /\ UNCHANGED <<queue_processing, queue_lock, pc, wvars, aria2, files>>

\* -------------------------------------------------------------- the engine
Transfer(status, code, msg) ==
    [status |-> status, errorCode |-> code, errorMessage |-> msg]

\* The errors aria2 reports for a transfer: its errorCode and errorMessage.
EngineErrors ==
    {[errorCode |-> "22", errorMessage |-> "The response status is not successful. status=429"],
     [errorCode |-> "9", errorMessage |-> "Not enough disk space available"]}

FreeGids == {g \in Gids : aria2[g].status = "none"}
\* The handle aria2.addUri returns: one the engine has not used.
NewGid == CHOOSE g \in FreeGids : \A h \in FreeGids : g <= h

\* aria2.tellActive: the transfers whose status is active.
TellActive == {g \in Gids : aria2[g].status = "active"}

\* aria2.remove: a transfer that is active, waiting or paused becomes
\* removed; for any other the RPC answers an error, which every caller drops.
Remove(eng, g) ==
    IF g \in Gids /\ eng[g].status \in {"active", "waiting", "paused"}
    THEN [eng EXCEPT ![g] = Transfer("removed", "", "")]
    ELSE eng

RECURSIVE RemoveAll(_, _)
RemoveAll(eng, gs) ==
    IF gs = {} THEN eng
    ELSE LET g == CHOOSE x \in gs : TRUE IN RemoveAll(Remove(eng, g), gs \ {g})

\* The engine works on its transfers on its own.
Aria2Progress(g) ==
    /\ \/ /\ aria2[g].status = "waiting"
          /\ aria2' = [aria2 EXCEPT ![g] = Transfer("active", "", "")]
       \/ /\ aria2[g].status = "active"
          /\ aria2' = [aria2 EXCEPT ![g] = Transfer("complete", "", "")]
       \/ /\ aria2[g].status = "active"
          /\ \E e \in EngineErrors :
                aria2' = [aria2 EXCEPT ![g] = Transfer("error", e.errorCode, e.errorMessage)]
    /\ UNCHANGED <<download_queue, queue_processing, queue_lock, disk, pc, wvars, files, response>>

\* -------------------------------------------------------------- queue_start
QueueStart ==
    /\ queue_lock = "free"
    /\ IF download_queue = <<>>
       THEN /\ response' = Answer("Queue is empty")
            /\ UNCHANGED <<queue_processing, pc>>
       ELSE IF queue_processing
       THEN /\ response' = Answer("Queue is already processing")
            /\ UNCHANGED <<queue_processing, pc>>
       ELSE /\ queue_processing' = TRUE
            \* "if queue_thread is None or not queue_thread.is_alive()"
            /\ pc' = IF pc = "dead" THEN "while" ELSE pc
            /\ response' = Answer("Queue processing started")
    /\ UNCHANGED <<download_queue, queue_lock, disk, wvars, aria2, files>>

\* --------------------------------------------------------------- queue_stop
\* The transfers queue_stop removes: those tellActive lists whose gid some
\* item of the queue holds.  Nothing when the RPC fails.
StopTargets(q, reachable) ==
    IF reachable
    THEN {g \in TellActive : \E i \in DOMAIN q : q[i].gid = g}
    ELSE {}

\* A queue_stop that stops the transfers and the worker and keeps the jobs.
QueueStopKeepingJobs(reachable) ==
    /\ queue_lock = "free"
    /\ aria2' = RemoveAll(aria2, StopTargets(download_queue, reachable))
    /\ queue_processing' = FALSE
    /\ response' = Answer("Queue stopped")
    /\ UNCHANGED <<download_queue, disk, queue_lock, pc, wvars, files>>

QueueStop(reachable) ==
    /\ queue_lock = "free"
    /\ aria2' = RemoveAll(aria2, StopTargets(download_queue, reachable))
    /\ queue_processing' = FALSE
    /\ download_queue' = <<>>
    /\ disk' = Serialize(download_queue')
    /\ response' = Answer("Queue stopped and cleared")
    /\ UNCHANGED <<queue_lock, pc, wvars, files>>

\* -------------------------------------------------------------- queue_clear
\* A purge that keeps the jobs nobody has touched yet.
KeptIdle(item) == ~item.completed /\ ~item.downloading

\* "if not item.get('completed', False)"
Kept(item) == ~item.completed

QueueClear ==
    /\ queue_lock = "free"
    /\ download_queue' = SelectSeq(download_queue, Kept)
    /\ disk' = Serialize(download_queue')
    /\ response' = Answer("Cleared completed items from queue")
    /\ UNCHANGED <<queue_processing, queue_lock, pc, wvars, aria2, files>>

\* --------------------------------------------------- process exit, load_queue
\* The process ends (at any point) and is started again: the module's globals
\* are initialised and load_queue reads the items of QUEUE_FILE.  The engine
\* is another process and keeps its transfers.
Restart ==
    /\ download_queue' = disk
    /\ queue_processing' = FALSE
    /\ queue_lock' = "free"
    /\ pc' = "dead"
    /\ current_item' = NoItem
    /\ gid' = None
    /\ new_gid' = None
    /\ file_path' = NoFile
    /\ server_num' = 0
    /\ working_server' = FALSE
    /\ servers_tried' = <<>>
    /\ retry_reason' = ""
    /\ response' = Answer("")
    /\ UNCHANGED <<disk, aria2, files>>

\* ------------------------------------------------------------ process_queue
\* "while queue_processing:" -- reached at thread start and after the sleeps
\* that end an iteration.
\* The locals of the iteration that ended are not read again (each is
\* assigned before its next use), so they are dropped here.
WhileCheck ==
    /\ pc = "while"
    /\ pc' = IF queue_processing THEN "select" ELSE "dead"
    /\ download_queue' = Unrefer(Attempt(download_queue, servers_tried))
    /\ current_item' = NoItem
    /\ gid' = None
    /\ new_gid' = None
    /\ file_path' = NoFile
    /\ server_num' = 0
    /\ working_server' = FALSE
    /\ servers_tried' = <<>>
    /\ retry_reason' = ""
    /\ UNCHANGED <<queue_processing, queue_lock, disk, aria2, files, response>>

\* A test that skips only the items in progress.
PendingNotDownloading(item) == ~item.downloading

\* The test of lines 1302-1304.
Pending(item) == ~item.completed /\ ~item.downloading /\ item.error = NoError

\* The items the re-probe loop asks the engine about.
Probed(q) == {i \in DOMAIN q : q[i].downloading /\ q[i].gid # None}

\* What the engine can answer for item i, and what the loop makes of it:
\* "except" (the RPC raised), "running", "completed" (complete and the file is
\* there), "failed", or "pass" (the loop goes on to the next item).
ProbeOutcomes(q, i) ==
    LET st == aria2[q[i].gid].status IN
    {"except"}
    \cup (IF st \in {"active", "waiting", "paused"} THEN {"running"} ELSE {})
    \cup (IF st = "complete" /\ q[i].filename # NoFile THEN {"completed"} ELSE {})
    \cup (IF st = "complete" THEN {"pass"} ELSE {})
    \cup (IF st = "error" THEN {"failed"} ELSE {})
    \cup (IF st = "removed" THEN {"pass"} ELSE {})

EngineError(msg) == [kind |-> "engine", tried |-> <<>>, detail |-> msg]

\* The item as the re-probe loop leaves it.
Reprobed(item, outcome) ==
    CASE outcome = "completed" -> [item EXCEPT !.completed = TRUE, !.downloading = FALSE]
      [] outcome = "failed" ->
            [item EXCEPT !.downloading = FALSE, !.completed = TRUE,
                         !.error = EngineError(aria2[item.gid].errorMessage)]
      [] outcome = "except" -> [item EXCEPT !.downloading = FALSE]
      [] OTHER -> item

\* Lines 1293-1342, one critical section.
Select ==
    /\ pc = "select"
    /\ queue_lock = "free"
    /\ LET q == Unrefer(download_queue)
           idx == FirstIndex({i \in DOMAIN q : Pending(q[i])})
       IN
       IF q = <<>>
       THEN /\ queue_processing' = FALSE
            /\ pc' = "dead"
            /\ UNCHANGED <<download_queue, queue_lock, current_item>>
       ELSE IF idx # 0
       THEN /\ download_queue' = Pick(q, idx)
            /\ current_item' = View(q[idx])
            /\ pc' = "mark"
            /\ UNCHANGED <<queue_processing, queue_lock>>
       ELSE \/ \* every probed item passes: nothing is downloading
               /\ \A j \in Probed(q) : "pass" \in ProbeOutcomes(q, j)
               /\ queue_processing' = FALSE
               /\ pc' = "dead"
               /\ download_queue' = Unpick(q)
               /\ current_item' = NoItem
               /\ UNCHANGED queue_lock
            \/ \E i \in Probed(q), o \in {"running", "completed", "failed", "except"} :
               /\ o \in ProbeOutcomes(q, i)
               /\ \A j \in Probed(q) : j < i => "pass" \in ProbeOutcomes(q, j)
               /\ current_item' = NoItem
               /\ IF o = "running"
                  THEN \* any_downloading: the loop is left, the flag stays set
                       /\ pc' = "dead"
                       /\ download_queue' = Unpick(q)
                       /\ UNCHANGED <<queue_processing, queue_lock>>
                  ELSE \* save_queue() under queue_lock: the thread waits for
                       \* the lock it holds
                       /\ download_queue' = Unpick([q EXCEPT ![i] = Reprobed(q[i], o)])
                       /\ queue_lock' = "worker"
                       /\ pc' = "save_blocked"
                       /\ UNCHANGED queue_processing
    /\ UNCHANGED <<disk, gid, new_gid, file_path, server_num, working_server,
                   servers_tried, retry_reason, aria2, files, response>>

\* Lines 1344-1354.
Mark ==
    /\ pc = "mark"
    /\ queue_lock = "free"
    /\ LET idx == FirstByUrl(download_queue, current_item.download_url) IN
       download_queue' =
          IF idx = 0 THEN download_queue
          ELSE Refer([download_queue EXCEPT ![idx].downloading = TRUE,
                                            ![idx].gid = None], idx)
    /\ disk' = Serialize(download_queue')
    /\ pc' = "dispatch"
    /\ UNCHANGED <<queue_processing, queue_lock, wvars, aria2, files, response>>

\* The strings the code looks for in the lower-cased error message.
Mentions(msg) ==
    CASE msg = "The response status is not successful. status=429" -> {"429"}
      [] msg = "Resource not found" -> {"resource not found", "not found"}
      [] msg = "The response status is not successful. status=404" -> {"404"}
      [] msg = "Name resolution failed" -> {"name resolution"}
      [] OTHER -> {}

\* Lines 1539-1551: the retry_reason of an engine error, "" when the error is
\* not one to retry on another mirror.
RetryReason(code, msg) ==
    IF code = "3" \/ "resource not found" \in Mentions(msg) THEN "Resource not found"
    ELSE IF code = "19" \/ "dns" \in Mentions(msg) \/ "name resolution" \in Mentions(msg)
         THEN "DNS resolution failed"
    ELSE IF "429" \in Mentions(msg) THEN "Rate limited (429)"
    ELSE IF code = "22" /\ ("not found" \in Mentions(msg) \/ "404" \in Mentions(msg))
         THEN "HTTP 404 Not found"
    ELSE ""

\* download_url_with_media: a vimm.net URL from which a mediaId was read.
HasMedia(url) == url.vimm /\ url.media # 0

\* "if status_str == 'error' or error_code"
Errored(t) == t.status = "error" \/ t.errorCode # ""

\* error_message or f"Error code: {error_code}"
ErrorMsg(t) == IF t.errorMessage # "" THEN t.errorMessage ELSE "Error code"

\* "downloading = False, error = ..., completed = True" on item idx (no item
\* when idx = 0).
Failed(q, idx, err) ==
    IF idx = 0 THEN q
    ELSE [q EXCEPT ![idx].downloading = FALSE, ![idx].error = err,
                   ![idx].completed = TRUE]

\* The extension the name gets at dispatch, from the probes or the default.
DispatchExts == {".7z"}

\* current_item["filename"] = filename: a write to the dict current_item
\* refers to, in the list or not.
SetFilename(q, name) ==
    [i \in DOMAIN q |-> IF q[i].ref THEN [q[i] EXCEPT !.filename = name] ELSE q[i]]

\* Lines 1357-1510, and the handlers of an exception there (1728-1740 for
\* addUri, 1819-1834 for anything before it).
Dispatch ==
    /\ pc = "dispatch"
    /\ \/ \* os.makedirs raises
          /\ download_queue' =
                Failed(download_queue,
                       FirstByUrl(download_queue, current_item.download_url),
                       [kind |-> "processing", tried |-> <<>>, detail |-> ""])
          /\ disk' = Serialize(download_queue')
          /\ pc' = "while"
          /\ UNCHANGED <<gid, file_path, aria2>>
       \/ \E ext \in DispatchExts :
          LET name == FileName(SafeName(current_item.title), ext)
              q == SetFilename(download_queue, name)
          IN
          /\ file_path' = name
          /\ \/ \* aria2.addUri raises
                /\ download_queue' =
                      Failed(q, FirstByUrl(q, current_item.download_url),
                             [kind |-> "add", tried |-> <<>>, detail |-> ""])
                /\ disk' = Serialize(download_queue')
                /\ pc' = "while"
                /\ UNCHANGED <<gid, aria2>>
             \/ /\ FreeGids # {}
                /\ \E st \in {"active", "waiting"} :
                      aria2' = [aria2 EXCEPT ![NewGid] = Transfer(st, "", "")]
                /\ gid' = NewGid
                /\ download_queue' = Attempt(q, <<FirstServer>>)
                /\ pc' = "set_gid"
                /\ UNCHANGED disk
    /\ UNCHANGED <<queue_processing, queue_lock, current_item, server_num,
                   working_server, servers_tried, retry_reason, new_gid, files, response>>

\* Lines 1512-1519.
SetGid ==
    /\ pc = "set_gid"
    /\ queue_lock = "free"
    /\ LET idx == FirstByUrl(download_queue, current_item.download_url) IN
       download_queue' =
          IF idx = 0 THEN download_queue
          ELSE Refer([download_queue EXCEPT ![idx].gid = gid], idx)
    /\ disk' = Serialize(download_queue')
    /\ pc' = "settle"
    /\ UNCHANGED <<queue_processing, queue_lock, wvars, aria2, files, response>>

\* Lines 1524-1564 and 1698-1727: the status check three seconds after the
\* dispatch.
Settle ==
    /\ pc = "settle"
    /\ \/ \* aria2.tellStatus raises: "assuming download started"
          /\ pc' = "monitor"
          /\ UNCHANGED <<download_queue, disk, aria2, server_num, working_server,
                         servers_tried, retry_reason>>
       \/ /\ aria2[gid].status # "none"
          /\ LET t == aria2[gid]
                 reason == RetryReason(t.errorCode, ErrorMsg(t))
             IN
             IF ~Errored(t)
             THEN /\ pc' = "monitor"
                  /\ UNCHANGED <<download_queue, disk, aria2, server_num,
                                 working_server, servers_tried, retry_reason>>
             ELSE IF HasMedia(current_item.download_url) /\ reason # ""
             THEN \* aria2.remove (an exception is dropped), then the mirror loop
                  /\ \E removed \in BOOLEAN :
                        aria2' = IF removed THEN Remove(aria2, gid) ELSE aria2
                  /\ server_num' = FirstServer + 1
                  /\ working_server' = FALSE
                  /\ servers_tried' = <<>>
                  /\ retry_reason' = reason
                  /\ pc' = "probe"
                  /\ UNCHANGED <<download_queue, disk>>
             ELSE /\ download_queue' =
                        Failed(download_queue, FirstByGid(download_queue, gid),
                               EngineError(ErrorMsg(t)))
                  /\ disk' = Serialize(download_queue')
                  /\ pc' = "while"
                  /\ UNCHANGED <<aria2, server_num, working_server, servers_tried,
                                 retry_reason>>
    /\ UNCHANGED <<queue_processing, queue_lock, current_item, gid, file_path,
                   new_gid, files, response>>

\* "Tried servers dl2, dl3, ... but none worked. Original error: ..."
Exhausted(tried, reason) == [kind |-> "exhausted", tried |-> tried, detail |-> reason]

\* The end of one pass of the mirror loop that did not break out of it: the
\* next server, or after the last one lines 1683-1697.
Continue(ws, tried) ==
    IF server_num + 1 < ServerRangeEnd
    THEN /\ server_num' = server_num + 1
         /\ pc' = "probe"
         /\ UNCHANGED <<download_queue, disk>>
    ELSE /\ server_num' = server_num
         /\ IF ws
            THEN /\ pc' = "monitor"
                 /\ UNCHANGED <<download_queue, disk>>
            ELSE /\ download_queue' =
                       Failed(download_queue,
                              FirstByUrl(download_queue, current_item.download_url),
                              Exhausted(tried, retry_reason))
                 /\ disk' = Serialize(download_queue')
                 /\ pc' = "while"

\* The status of the probe's response; 0 when both HEAD and GET raise.
ProbeResults == {200, 302, 429, 404, 500, 0}
\* The mirrors that answer a probe at all; the others are down (0).
LiveMirrors == {2, 3, 20}
ProbeAnswers(server) == IF server \in LiveMirrors THEN ProbeResults ELSE {0}
\* A test that takes any answer, also none, for a working mirror.
AcceptedAny(status) == TRUE

\* "if test_response.status_code in (200, 301, 302, 303, 307, 308)"
Accepted(status) == status \in {200, 301, 302, 303, 307, 308}

\* Lines 1580-1623 and 1667-1681: one mirror is probed and, when the probe
\* is accepted, added to the engine.
Probe ==
    /\ pc = "probe"
    /\ servers_tried' = Append(servers_tried, server_num)
    /\ \E status \in ProbeAnswers(server_num) :
          IF Accepted(status)
          THEN /\ working_server' = TRUE
               /\ \/ \* aria2.addUri raises: "unexpected error", next server
                     /\ Continue(TRUE, servers_tried')
                     /\ UNCHANGED <<aria2, new_gid>>
                  \/ /\ FreeGids # {}
                     /\ \E st \in {"active", "waiting"} :
                           aria2' = [aria2 EXCEPT ![NewGid] = Transfer(st, "", "")]
                     /\ new_gid' = NewGid
                     /\ pc' = "set_mirror"
                     /\ UNCHANGED <<download_queue, disk, server_num>>
          ELSE /\ Continue(working_server, servers_tried')
               /\ UNCHANGED <<working_server, aria2, new_gid>>
    /\ UNCHANGED <<queue_processing, queue_lock, current_item, gid, file_path,
                   retry_reason, files, response>>

\* Lines 1626-1634.
SetMirror ==
    /\ pc = "set_mirror"
    /\ queue_lock = "free"
    /\ LET idx == FirstByUrl(download_queue, current_item.download_url)
           test_url == MirrorUrl(server_num, current_item.download_url.media)
       IN
       IF idx = 0
       THEN UNCHANGED <<download_queue, current_item>>
       ELSE /\ download_queue' =
                  Refer([download_queue EXCEPT ![idx].gid = new_gid,
                                               ![idx].download_url = test_url], idx)
            /\ current_item' = View(download_queue'[idx])
    /\ disk' = Serialize(download_queue')
    /\ pc' = "resettle"
    /\ UNCHANGED <<queue_processing, queue_lock, gid, file_path, server_num,
                   working_server, servers_tried, retry_reason, new_gid, aria2, files, response>>

\* Lines 1636-1666: the status check three seconds after the re-dispatch.
Resettle ==
    /\ pc = "resettle"
    /\ \/ \* aria2.tellStatus raises: "assuming it's working"
          /\ gid' = new_gid
          /\ pc' = "monitor"
          /\ UNCHANGED <<download_queue, disk, aria2, server_num>>
       \/ /\ aria2[new_gid].status # "none"
          /\ IF Errored(aria2[new_gid])
             THEN /\ \E removed \in BOOLEAN :
                        aria2' = IF removed THEN Remove(aria2, new_gid) ELSE aria2
                  /\ Continue(working_server, servers_tried)
                  /\ UNCHANGED gid
             ELSE /\ gid' = new_gid
                  /\ pc' = "monitor"
                  /\ UNCHANGED <<download_queue, disk, aria2, server_num>>
    /\ UNCHANGED <<queue_processing, queue_lock, current_item, file_path,
                   working_server, servers_tried, retry_reason, new_gid, files, response>>

\* ------------------------------------------------------ the completion check
\* str.lower() of an extension.
Lower(ext) == IF ext = ".ZIP" THEN ".zip" ELSE ext

\* Lines 1763-1768: the extension the first bytes stand for, "" for none.
ActualExt(content) ==
    IF content = "7z" THEN ".7z" ELSE IF content = "PK" THEN ".zip" ELSE ""

\* A rename that does not look for a file at the new path.
RenamesOverExisting(fs, path) ==
    /\ ActualExt(fs[path]) # ""
    /\ Lower(path.ext) # ActualExt(fs[path])

\* Lines 1771-1774: whether the file at path is renamed.
Renames(fs, path) ==
    /\ ActualExt(fs[path]) # ""
    /\ Lower(path.ext) # ActualExt(fs[path])
    /\ fs[FileName(path.base, ActualExt(fs[path]))] = "absent"

\* os.path.splitext(file_path)[0] + actual_ext
NewPath(fs, path) == FileName(path.base, ActualExt(fs[path]))

\* os.rename(file_path, new_file_path)
Rename(fs, old, new) == [fs EXCEPT ![old] = "absent", ![new] = fs[old]]

\* A completion that does not look for the file.
CompletionCheckNoFileTest(fs, path, q, g) ==
    LET idx == FirstByGid(q, g) IN
    [done |-> TRUE, files |-> fs, file_path |-> path,
     queue |-> IF idx = 0 THEN q
               ELSE [q EXCEPT ![idx].completed = TRUE, ![idx].downloading = FALSE],
     log |-> ""]

\* Lines 1756-1798 for a transfer the engine reports complete: the directory,
\* the worker's file_path and the queue afterwards.  Nothing changes when
\* the file is not there.
CompletionCheck(fs, path, q, g) ==
    IF fs[path] = "absent"
    THEN [done |-> FALSE, files |-> fs, file_path |-> path, queue |-> q, log |-> ""]
    ELSE LET renamed == Renames(fs, path)
             new == IF renamed THEN NewPath(fs, path) ELSE path
             idx == FirstByGid(q, g)
             q1 == IF renamed /\ idx # 0 THEN [q EXCEPT ![idx].filename = new] ELSE q
             q2 == IF idx = 0 THEN q1
                   ELSE [q1 EXCEPT ![idx].completed = TRUE, ![idx].downloading = FALSE]
         IN [done |-> TRUE,
             files |-> IF renamed THEN Rename(fs, path, new) ELSE fs,
             file_path |-> new,
             queue |-> q2,
             log |-> IF renamed THEN "Renamed file to correct extension" ELSE ""]

\* A line the worker prints about a rename becomes the last line of the log.
Logged(line) == IF line = "" THEN response ELSE Answer(line)

\* Lines 1743-1817: one pass of the monitoring loop, after its sleep.
Monitor ==
    /\ pc = "monitor"
    /\ IF ~queue_processing
       THEN /\ pc' = "while"
            /\ UNCHANGED <<download_queue, disk, file_path, response>>
       ELSE \/ \* tellStatus raises, or the status is neither complete nor error
               /\ UNCHANGED <<pc, download_queue, disk, file_path, response>>
            \/ \* complete; the directory is in whatever state the engine and
               \* others have left it in
               /\ aria2[gid].status = "complete"
               /\ \E fs \in FileSystems :
                  LET r == CompletionCheck(fs, file_path, download_queue, gid) IN
                  /\ file_path' = r.file_path
                  /\ download_queue' = r.queue
                  /\ response' = Logged(r.log)
                  /\ IF r.done
                     THEN /\ disk' = Serialize(download_queue')
                          /\ pc' = "while"
                     ELSE UNCHANGED <<disk, pc>>
            \/ /\ aria2[gid].status = "error"
               /\ download_queue' =
                     Failed(download_queue, FirstByGid(download_queue, gid),
                            EngineError(aria2[gid].errorMessage))
               /\ disk' = Serialize(download_queue')
               /\ pc' = "while"
               /\ UNCHANGED <<file_path, response>>
    /\ UNCHANGED <<queue_processing, queue_lock, current_item, gid, new_gid,
                   server_num, working_server, servers_tried, retry_reason, aria2,
                   files>>

Next ==
    \/ \E url \in RequestUrls \cup QueueUrls, title \in Titles, page \in Pages :
          QueueAdd(url, title, page)
    \/ QueueStart
    \/ \E reachable \in BOOLEAN : QueueStop(reachable)
    \/ QueueClear
    \/ Restart
    \/ \E g \in Gids : Aria2Progress(g)
    \/ WhileCheck
    \/ Select
    \/ Mark
    \/ Dispatch
    \/ SetGid
    \/ Settle
    \/ Probe
    \/ SetMirror
    \/ Resettle
    \/ Monitor

Spec == Init /\ [][Next]_vars

\* ------------------------------------------------- a queue loaded near the cap
\* QUEUE_FILE as an earlier run left it: one job short of MAX_QUEUE_SIZE, one
\* game each (mediaId 1, 2, ...) from mirror 3, all downloaded and none
\* purged; their handles are those of that run's engine.
NearCap ==
    [m \in 1..(MAX_QUEUE_SIZE - 1) |->
        [NewJob(MirrorUrl(3, m), GameTitle, "page") EXCEPT
            !.completed = TRUE, !.gid = MaxGid + m,
            !.filename = FileName("Game", ".zip")]]

InitCap ==
    /\ download_queue = NearCap
    /\ queue_processing = FALSE
    /\ queue_lock = "free"
    /\ disk = NearCap
    /\ pc = "dead"
    /\ current_item = NoItem
    /\ gid = None
    /\ new_gid = None
    /\ file_path = NoFile
    /\ server_num = 0
    /\ working_server = FALSE
    /\ servers_tried = <<>>
    /\ retry_reason = ""
    \* the engine is at the model's bound with transfers of other clients
    /\ aria2 = [g \in Gids |-> Transfer("complete", "", "")]
    /\ files = [n \in FileNames |-> "absent"]
    /\ response = ""

\* The requests and the worker, with an engine that takes no transfer.
NextCap ==
    \/ \E url \in RequestUrls \cup QueueUrls, title \in Titles, page \in Pages :
          QueueAdd(url, title, page)
    \/ QueueStart
    \/ \E reachable \in BOOLEAN : QueueStop(reachable)
    \/ QueueClear
    \/ Restart
    \/ WhileCheck
    \/ Select
    \/ Mark
    \/ Dispatch

SpecCap == InitCap /\ [][NextCap]_vars

\* ------------------------------------------------- a run that is not stopped
\* The program from its start, with no request to /queue/stop and a process
\* that is not restarted: the worker thread runs until its loop ends.
NextRun ==
    \/ \E url \in RequestUrls \cup QueueUrls, title \in Titles, page \in Pages :
          QueueAdd(url, title, page)
    \/ QueueStart
    \/ QueueClear
    \/ \E g \in Gids : Aria2Progress(g)
    \/ WhileCheck
    \/ Select
    \/ Mark
    \/ Dispatch
    \/ SetGid
    \/ Settle
    \/ Probe
    \/ SetMirror
    \/ Resettle
    \/ Monitor

SpecRun == Init /\ [][NextRun]_vars

\* ------------------------------------------ a run whose answers are observed
\* The run that is not stopped, with the answer of the last request kept.
InitPurge ==
    /\ download_queue = <<>>
    /\ queue_processing = FALSE
    /\ queue_lock = "free"
    /\ disk = <<>>
    /\ pc = "dead"
    /\ current_item = NoItem
    /\ gid = None
    /\ new_gid = None
    /\ file_path = NoFile
    /\ server_num = 0
    /\ working_server = FALSE
    /\ servers_tried = <<>>
    /\ retry_reason = ""
    /\ aria2 = [g \in Gids |-> NoTransfer]
    /\ files = [n \in FileNames |-> "absent"]
    /\ response = ""

SpecPurge == InitPurge /\ [][NextRun]_vars

\* --------------------------------------------------- the requests of a client
\* The longest title a request of this specification carries.
MaxTitle == 2
\* The characters of these titles: a letter, a character that is not kept in
\* a file name, white space.
TitleChars == {"G", "?", " "}
RawTitles == UNION {[1..n -> TitleChars] : n \in 0..MaxTitle}
\* The URLs of these requests: nothing, a non-http string, an https URL of
\* another site, the download URL of mirror 3, and an https URL of another
\* host with "vimm.net" in its query string.
BoundaryUrls ==
    {Url("", FALSE, 0, 0), Url("ftp", TRUE, 3, 63374), Url("https", FALSE, 0, 63374),
     MirrorUrl(3, 63374), Url("https", TRUE, 0, 63374)}

InitBoundary ==
    /\ download_queue = <<>>
    /\ queue_processing = FALSE
    /\ queue_lock = "free"
    /\ disk = <<>>
    /\ pc = "dead"
    /\ current_item = NoItem
    /\ gid = None
    /\ new_gid = None
    /\ file_path = NoFile
    /\ server_num = 0
    /\ working_server = FALSE
    /\ servers_tried = <<>>
    /\ retry_reason = ""
    \* the engine is at the model's bound with transfers of other clients
    /\ aria2 = [g \in Gids |-> Transfer("complete", "", "")]
    /\ files = [n \in FileNames |-> "absent"]
    /\ response = ""

\* The requests to enqueue, start and purge and the worker, with an engine
\* that takes no transfer.
NextBoundary ==
    \/ \E url \in BoundaryUrls, title \in RawTitles, page \in Pages :
          QueueAdd(url, title, page)
    \/ QueueStart
    \/ QueueClear
    \/ WhileCheck
    \/ Select
    \/ Mark
    \/ Dispatch

SpecBoundary == InitBoundary /\ [][NextBoundary]_vars

\* ------------------------------------------ an engine that answers queue_stop
\* The program from its start, with an engine that answers every RPC of
\* queue_stop and a process that is not restarted.
NextReach ==
    \/ \E url \in RequestUrls \cup QueueUrls, title \in Titles, page \in Pages :
          QueueAdd(url, title, page)
    \/ QueueStart
    \/ QueueStop(TRUE)
    \/ QueueClear
    \/ \E g \in Gids : Aria2Progress(g)
    \/ WhileCheck
    \/ Select
    \/ Mark
    \/ Dispatch
    \/ SetGid
    \/ Settle
    \/ Probe
    \/ SetMirror
    \/ Resettle
    \/ Monitor

SpecReach == Init /\ [][NextReach]_vars

\* ------------------------------------- a queue loaded after a mirror fallback
\* QUEUE_FILE as an earlier run left it.  Two jobs were enqueued for one game,
\* the first from mirror 3 and the second from mirror 2.  The first was
\* dispatched, fell back to mirror 2 (line 1631 wrote the mirror's URL into its
\* download_url) and completed, with a handle of that run's engine; the second
\* is still pending.
AfterFallback ==
    LET url == MirrorUrl(2, CHOOSE m \in MediaIds : TRUE) IN
    << [NewJob(url, GameTitle, "page") EXCEPT
            !.completed = TRUE, !.gid = MaxGid + 1,
            !.filename = FileName("Game", ".7z"),
            !.attempts = [followed |-> TRUE, mirrors |-> <<FirstServer, FirstServer + 1>>]],
       [NewJob(url, GameTitle, "page") EXCEPT
            !.attempts = [followed |-> TRUE, mirrors |-> <<>>]] >>

InitFallback ==
    /\ download_queue = AfterFallback
    /\ queue_processing = FALSE
    /\ queue_lock = "free"
    /\ disk = AfterFallback
    /\ pc = "dead"
    /\ current_item = NoItem
    /\ gid = None
    /\ new_gid = None
    /\ file_path = NoFile
    /\ server_num = 0
    /\ working_server = FALSE
    /\ servers_tried = <<>>
    /\ retry_reason = ""
    /\ aria2 = [g \in Gids |-> NoTransfer]
    /\ files = [n \in FileNames |-> "absent"]
    /\ response = "unobserved"

SpecFallback == InitFallback /\ [][Next]_vars

\* --------------------------------------- the completion check on a directory
\* The worker in its monitoring loop, the engine reporting its transfer
\* complete: any directory, any name for the file, the job still in the queue
\* or removed from it.
RenameJob(name) ==
    [NewJob(MirrorUrl(3, CHOOSE m \in MediaIds : TRUE), GameTitle, "page") EXCEPT
        !.downloading = TRUE, !.gid = 1, !.filename = name, !.ref = TRUE, !.sel = TRUE]

InitRename ==
    \E fs \in FileSystems, name \in FileNames, kept \in BOOLEAN :
       LET q == IF kept THEN <<RenameJob(name)>> ELSE <<>> IN
       /\ download_queue = q
       /\ queue_processing = TRUE
       /\ queue_lock = "free"
       /\ disk = Serialize(q)
       /\ pc = "monitor"
       /\ current_item = View(RenameJob(name))
       /\ gid = 1
       /\ new_gid = None
       /\ file_path = name
       /\ server_num = 0
       /\ working_server = FALSE
       /\ servers_tried = <<>>
       /\ retry_reason = ""
       /\ aria2 = [g \in Gids |-> IF g = 1 THEN Transfer("complete", "", "") ELSE NoTransfer]
       /\ files = fs
       /\ response = ""

\* Lines 1754-1800 on the directory as it is, the renames it makes included;
\* a check that finds the file goes from position from to position to.
Check(from, to) ==
    /\ pc = from
    /\ aria2[gid].status = "complete"
    /\ LET r == CompletionCheck(files, file_path, download_queue, gid) IN
       /\ files' = r.files
       /\ file_path' = r.file_path
       /\ download_queue' = r.queue
       /\ response' = Logged(r.log)
       /\ disk' = IF r.done THEN Serialize(download_queue') ELSE disk
       /\ pc' = IF r.done THEN to ELSE pc
    /\ UNCHANGED <<queue_processing, queue_lock, current_item, gid, new_gid,
                   server_num, working_server, servers_tried, retry_reason, aria2>>

CheckFile == Check("monitor", "checked")
\* The same check once more, on what the first one left.
CheckAgain == Check("checked", "rechecked")

NextRename == CheckFile \/ CheckAgain

SpecRename == InitRename /\ [][NextRename]_vars

\* ------------------------------------------------- threads of the process
\* The start handler and process_queue with every thread of the process shown.
\* Here pc is a record: start[h] is the position of start request h ("idle",
\* "flagged" after the locked block, "creating" once the test of line 1939
\* passed), worker[t] the position of thread t ("none" before it is created),
\* item[t] the local current_item of thread t, and queue_thread the thread the
\* global of line 37 names.  The engine takes no transfer (addUri raises).
MaxWorkers == 2
Workers == 1 .. MaxWorkers
Handlers == {"a", "b"}
ThreadUrls == {MirrorUrl(s, m) : s \in {2, 3}, m \in MediaIds}

\* threading.Thread.is_alive()
IsAlive(t) == pc.worker[t] \notin {"none", "dead"}

InitThreads ==
    /\ download_queue = <<>>
    /\ queue_processing = FALSE
    /\ queue_lock = "free"
    /\ disk = <<>>
    /\ pc = [start |-> [h \in Handlers |-> "idle"],
             worker |-> [t \in Workers |-> "none"],
             item |-> [t \in Workers |-> NoItem],
             queue_thread |-> None]
    /\ current_item = NoItem
    /\ gid = None
    /\ new_gid = None
    /\ file_path = NoFile
    /\ server_num = 0
    /\ working_server = FALSE
    /\ servers_tried = <<>>
    /\ retry_reason = ""
    /\ aria2 = [g \in Gids |-> NoTransfer]
    /\ files = [n \in FileNames |-> "absent"]
    /\ response = "unobserved"

\* Lines 1926-1936: the locked block of queue_start.
StartLocked(h) ==
    /\ pc.start[h] = "idle"
    /\ queue_lock = "free"
    /\ IF download_queue = <<>> \/ queue_processing
       THEN UNCHANGED <<queue_processing, pc>>
       ELSE /\ queue_processing' = TRUE
            /\ pc' = [pc EXCEPT !.start[h] = "flagged"]
    /\ UNCHANGED <<download_queue, queue_lock, disk, wvars, aria2, files, response>>

\* Line 1939: "if queue_thread is None or not queue_thread.is_alive()".
StartTest(h) ==
    /\ pc.start[h] = "flagged"
    /\ pc' = [pc EXCEPT !.start[h] =
                 IF pc.queue_thread = None \/ ~IsAlive(pc.queue_thread)
                 THEN "creating" ELSE "idle"]
    /\ UNCHANGED <<download_queue, queue_processing, queue_lock, disk, wvars,
                   aria2, files, response>>

\* Lines 1940-1941: the thread is created, named by queue_thread and started.
StartThread(h) ==
    /\ pc.start[h] = "creating"
    /\ \E t \in Workers :
          /\ pc.worker[t] = "none"
          /\ \A u \in Workers : u < t => pc.worker[u] # "none"
          /\ pc' = [pc EXCEPT !.start[h] = "idle", !.worker[t] = "while",
                              !.queue_thread = t]
    /\ UNCHANGED <<download_queue, queue_processing, queue_lock, disk, wvars,
                   aria2, files, response>>

\* Line 1291 in thread t.
WorkerWhile(t) ==
    /\ pc.worker[t] = "while"
    /\ pc' = [pc EXCEPT !.worker[t] = IF queue_processing THEN "select" ELSE "dead"]
    /\ UNCHANGED <<download_queue, queue_processing, queue_lock, disk, wvars,
                   aria2, files, response>>

\* Lines 1293-1342 in thread t.  No item holds a gid here, so the re-probe
\* loop asks the engine nothing and the thread ends with the flag cleared.
WorkerSelect(t) ==
    /\ pc.worker[t] = "select"
    /\ queue_lock = "free"
    /\ LET idx == FirstIndex({i \in DOMAIN download_queue :
                                 Pending(download_queue[i])})
       IN
       IF idx = 0
       THEN /\ queue_processing' = FALSE
            /\ pc' = [pc EXCEPT !.worker[t] = "dead", !.item[t] = NoItem]
       ELSE /\ pc' = [pc EXCEPT !.worker[t] = "mark",
                                !.item[t] = View(download_queue[idx])]
            /\ UNCHANGED queue_processing
    /\ UNCHANGED <<download_queue, queue_lock, disk, wvars, aria2, files, response>>

\* Lines 1344-1354 in thread t.
WorkerMark(t) ==
    /\ pc.worker[t] = "mark"
    /\ queue_lock = "free"
    /\ LET idx == FirstByUrl(download_queue, pc.item[t].download_url) IN
       download_queue' =
          IF idx = 0 THEN download_queue
          ELSE [download_queue EXCEPT ![idx].downloading = TRUE,
                                      ![idx].gid = None]
    /\ disk' = Serialize(download_queue')
    /\ pc' = [pc EXCEPT !.worker[t] = "dispatch"]
    /\ UNCHANGED <<queue_processing, queue_lock, wvars, aria2, files, response>>

\* Lines 1356-1510 and 1728-1740 in thread t: aria2.addUri raises.
WorkerDispatch(t) ==
    /\ pc.worker[t] = "dispatch"
    /\ queue_lock = "free"
    /\ download_queue' =
          Failed(download_queue,
                 FirstByUrl(download_queue, pc.item[t].download_url),
                 [kind |-> "add", tried |-> <<>>, detail |-> ""])
    /\ disk' = Serialize(download_queue')
    /\ pc' = [pc EXCEPT !.worker[t] = "while"]
    /\ UNCHANGED <<queue_processing, queue_lock, wvars, aria2, files, response>>

NextThreads ==
    \/ \E url \in ThreadUrls : QueueAdd(url, GameTitle, "page")
    \/ \E h \in Handlers : StartLocked(h)
    \/ \E h \in Handlers : StartTest(h)
    \/ \E h \in Handlers : StartThread(h)
    \/ QueueStop(FALSE)
    \/ \E t \in Workers : WorkerWhile(t)
    \/ \E t \in Workers : WorkerSelect(t)
    \/ \E t \in Workers : WorkerMark(t)
    \/ \E t \in Workers : WorkerDispatch(t)

SpecThreads == InitThreads /\ [][NextThreads]_vars

\* ------------------------------------------------------- fair scheduling
\* The download directory as the engine leaves it when it reports a transfer
\* complete: with the file under the name the worker asked for, or without.
FairDirs ==
    {[n \in FileNames |-> "absent"],
     [n \in FileNames |-> IF n.ext = ".7z" THEN "7z" ELSE "absent"]}

InitFair ==
    /\ download_queue = <<>>
    /\ queue_processing = FALSE
    /\ queue_lock = "free"
    /\ disk = <<>>
    /\ pc = "dead"
    /\ current_item = NoItem
    /\ gid = None
    /\ new_gid = None
    /\ file_path = NoFile
    /\ server_num = 0
    /\ working_server = FALSE
    /\ servers_tried = <<>>
    /\ retry_reason = ""
    /\ aria2 = [g \in Gids |-> NoTransfer]
    /\ files \in FairDirs
    /\ response = "unobserved"

\* Lines 1743-1817: one pass of the monitoring loop, after its sleep, over the
\* directory as it is.
MonitorDir ==
    /\ pc = "monitor"
    /\ IF ~queue_processing
       THEN /\ pc' = "while"
            /\ UNCHANGED <<download_queue, disk, file_path, files, response>>
       ELSE \/ \* tellStatus raises, or the status is neither complete nor error
               /\ UNCHANGED <<pc, download_queue, disk, file_path, files, response>>
            \/ /\ aria2[gid].status = "complete"
               /\ LET r == CompletionCheck(files, file_path, download_queue, gid) IN
                  /\ file_path' = r.file_path
                  /\ files' = r.files
                  /\ download_queue' = r.queue
                  /\ response' = Logged(r.log)
                  /\ IF r.done
                     THEN /\ disk' = Serialize(download_queue')
                          /\ pc' = "while"
                     ELSE UNCHANGED <<disk, pc>>
            \/ /\ aria2[gid].status = "error"
               /\ download_queue' =
                     Failed(download_queue, FirstByGid(download_queue, gid),
                            EngineError(aria2[gid].errorMessage))
               /\ disk' = Serialize(download_queue')
               /\ pc' = "while"
               /\ UNCHANGED <<file_path, files, response>>
    /\ UNCHANGED <<queue_processing, queue_lock, current_item, gid, new_gid,
                   server_num, working_server, servers_tried, retry_reason, aria2>>

\* The worker thread is scheduled again after each of its steps and sleeps,
\* and the engine goes on with every transfer it holds.  Requests come or
\* do not come.  The worker's fairness is the strong one: no series of
\* requests, however timed, keeps a step from the worker that it could take
\* again and again.
WorkerStep ==
    \/ WhileCheck
    \/ Select
    \/ Mark
    \/ Dispatch
    \/ SetGid
    \/ Settle
    \/ Probe
    \/ SetMirror
    \/ Resettle
    \/ MonitorDir

NextFair ==
    \/ \E url \in ThreadUrls : QueueAdd(url, GameTitle, "page")
    \/ QueueStart
    \/ QueueStop(TRUE)
    \/ \E g \in Gids : Aria2Progress(g)
    \/ WorkerStep

Fairness ==
    /\ SF_vars(WorkerStep)
    /\ \A g \in Gids : WF_vars(Aria2Progress(g))

SpecFair == InitFair /\ [][NextFair]_vars /\ Fairness

\* ------------------------------------------- an engine shared with others
\* The engine gets a vimm.net transfer that no job of the queue holds: the
\* direct-download path adds it (line 926) after its own look at the active
\* transfers found none or raised (lines 855-872), or another client of the
\* engine does.  Every URL of this specification is a vimm.net one.
DirectAdd ==
    /\ FreeGids # {}
    /\ \E checked \in BOOLEAN : checked => TellActive = {}
    /\ \E st \in {"active", "waiting"} :
          aria2' = [aria2 EXCEPT ![NewGid] = Transfer(st, "", "")]
    /\ UNCHANGED <<download_queue, queue_processing, queue_lock, disk, pc, wvars,
                   files, response>>

NextShared ==
    \/ \E url \in ThreadUrls : QueueAdd(url, GameTitle, "page")
    \/ QueueStart
    \/ DirectAdd
    \/ \E g \in Gids : Aria2Progress(g)
    \/ WorkerStep

SpecShared == InitFair /\ [][NextShared]_vars

\* ------------------------------------------------- RPCs inside queue_lock
\* The two critical sections that call the engine, with the call and its
\* answer as separate steps.  queue_lock = "stop" while queue_stop waits for
\* aria2.remove inside its lock (lines 1959-1963); pc = "reprobe" with
\* queue_lock = "worker" while the worker waits for aria2.tellStatus inside
\* the critical section of its selection (lines 1293-1318).

\* Lines 1955-1963: queue_stop has the list of active transfers, takes the
\* lock, finds a job with the gid and calls aria2.remove.
StopRemoveCall ==
    /\ queue_lock = "free"
    /\ StopTargets(download_queue, TRUE) # {}
    /\ queue_lock' = "stop"
    /\ UNCHANGED <<download_queue, queue_processing, disk, pc, wvars, aria2,
                   files, response>>

\* Lines 1963-1967: the answer of aria2.remove; the lock is released.
StopRemoveAnswer ==
    /\ queue_lock = "stop"
    /\ \/ \E g \in StopTargets(download_queue, TRUE) : aria2' = Remove(aria2, g)
       \/ UNCHANGED aria2
    /\ queue_lock' = "free"
    /\ UNCHANGED <<download_queue, queue_processing, disk, pc, wvars, files,
                   response>>

\* The selection makes no call to the engine: the queue is empty, a job is
\* pending, or no job is downloading with a gid.
SelectLocal ==
    /\ \/ download_queue = <<>>
       \/ \E i \in DOMAIN download_queue : Pending(download_queue[i])
       \/ Probed(download_queue) = {}
    /\ Select

\* Lines 1293-1318: no job is pending and one is downloading with a gid; the
\* worker, inside the lock, calls aria2.tellStatus.
ReprobeCall ==
    /\ pc = "select"
    /\ queue_lock = "free"
    /\ download_queue # <<>>
    /\ \A i \in DOMAIN download_queue : ~Pending(download_queue[i])
    /\ Probed(download_queue) # {}
    /\ queue_lock' = "worker"
    /\ pc' = "reprobe"
    /\ UNCHANGED <<download_queue, queue_processing, disk, wvars, aria2, files,
                   response>>

\* Lines 1318-1341: the answers of the engine and what the loop makes of them.
ReprobeAnswer ==
    /\ pc = "reprobe"
    /\ queue_lock = "worker"
    /\ LET q == Unrefer(download_queue) IN
       \/ /\ \A j \in Probed(q) : "pass" \in ProbeOutcomes(q, j)
          /\ queue_processing' = FALSE
          /\ pc' = "dead"
          /\ download_queue' = Unpick(q)
          /\ queue_lock' = "free"
       \/ \E i \in Probed(q), o \in {"running", "completed", "failed", "except"} :
          /\ o \in ProbeOutcomes(q, i)
          /\ \A j \in Probed(q) : j < i => "pass" \in ProbeOutcomes(q, j)
          /\ IF o = "running"
             THEN /\ pc' = "dead"
                  /\ download_queue' = Unpick(q)
                  /\ queue_lock' = "free"
                  /\ UNCHANGED queue_processing
             ELSE /\ download_queue' = Unpick([q EXCEPT ![i] = Reprobed(q[i], o)])
                  /\ pc' = "save_blocked"
                  /\ UNCHANGED <<queue_processing, queue_lock>>
    /\ current_item' = NoItem
    /\ UNCHANGED <<disk, gid, new_gid, file_path, server_num, working_server,
                   servers_tried, retry_reason, aria2, files, response>>

NextLock ==
    \/ \E url \in ThreadUrls : QueueAdd(url, GameTitle, "page")
    \/ QueueStart
    \/ StopRemoveCall
    \/ StopRemoveAnswer
    \/ QueueStop(FALSE)
    \/ QueueClear
    \/ Restart
    \/ \E g \in Gids : Aria2Progress(g)
    \/ WhileCheck
    \/ SelectLocal
    \/ ReprobeCall
    \/ ReprobeAnswer
    \/ Mark
    \/ Dispatch
    \/ SetGid
    \/ Settle
    \/ Probe
    \/ SetMirror
    \/ Resettle
    \/ Monitor

SpecLock == Init /\ [][NextLock]_vars

\* ===================================================================== claims
\* The statuses in which the engine still holds a transfer.
Held == {"active", "waiting", "paused"}
\* A request queue_add's validation lets through.
WellFormed(url, title) == url.scheme \in {"http", "https"} /\ title # <<>> /\ url.vimm
\* The request names a job of the store that is not terminal.
NamesLiveJob(url) ==
    \E i \in DOMAIN download_queue :
        download_queue[i].download_url = url /\ ~download_queue[i].completed

\* C1 (single flight): in every reachable state at most one job of the store
\* has downloading = TRUE, a worker started on a store loaded from disk
\* included.
C1_SingleFlight ==
    Cardinality({i \in DOMAIN download_queue : download_queue[i].downloading}) <= 1

\* C2, as stated: an enqueue request whose URL names a job of the store that is
\* not terminal is answered with the duplicate-URL reason and leaves the store
\* as it was, whatever the size of the store up to the cap.
C2_DuplicateRejected ==
    [][\A url \in QueueUrls, title \in Titles, page \in Pages :
          (QueueAdd(url, title, page) /\ WellFormed(url, title) /\ NamesLiveJob(url))
          => /\ response' = "already in the queue"
             /\ download_queue' = download_queue]_vars

\* C2, amended: such a request leaves the store and its file as they were; it
\* is answered with the duplicate-URL reason when the store holds fewer than
\* MAX_QUEUE_SIZE jobs, and with the queue-full reason when it holds that many.
C2_DuplicateOrFull ==
    [][\A url \in QueueUrls, title \in Titles, page \in Pages :
          (QueueAdd(url, title, page) /\ WellFormed(url, title) /\ NamesLiveJob(url))
          => /\ download_queue' = download_queue
             /\ disk' = disk
             /\ response' = IF Len(download_queue) < MAX_QUEUE_SIZE
                             THEN "already in the queue"
                             ELSE "Queue is full"]_vars

\* A duplicate of a pending job was just refused, below the cap.
C2_Witness ==
    /\ response = "already in the queue"
    /\ download_queue # <<>>
    /\ Len(download_queue) < MAX_QUEUE_SIZE
    /\ \A i \in DOMAIN download_queue : ~download_queue[i].completed

\* C3 (queue full): when the store holds MAX_QUEUE_SIZE jobs every enqueue
\* request is refused and changes neither the store nor its file, and a
\* well-formed one is answered with the queue-full reason.
C3_FullRejected ==
    [][\A url \in RequestUrls \cup QueueUrls, title \in Titles, page \in Pages :
          (QueueAdd(url, title, page) /\ Len(download_queue) >= MAX_QUEUE_SIZE)
          => /\ download_queue' = download_queue
             /\ disk' = disk
             /\ response' # "ok"
             /\ WellFormed(url, title) => response' = "Queue is full"]_vars

\* A request has just been refused by a store of MAX_QUEUE_SIZE jobs.
C3_Witness ==
    /\ Len(download_queue) = MAX_QUEUE_SIZE
    /\ response = "Queue is full"

\* C4 (size bound): the store never holds more than MAX_QUEUE_SIZE jobs.
C4_SizeBound == Len(download_queue) <= MAX_QUEUE_SIZE

\* An accepted request has just filled the store.
C4_Witness ==
    /\ Len(download_queue) = MAX_QUEUE_SIZE
    /\ response = "ok"

C6_StopCancelsTransfer ==
    [][\A i \in DOMAIN download_queue :
          (/\ QueueStop(TRUE)
           /\ download_queue[i].downloading
           /\ download_queue[i].gid \in Gids
           /\ aria2[download_queue[i].gid].status \in Held)
          => aria2'[download_queue[i].gid].status \notin Held]_vars

\* C7 (no orphan after reset): once a reset has emptied the store and the
\* worker has left its iteration at its next check of the run flag, the
\* engine does not hold the transfer the worker added in that iteration.
C7_NoOrphanAfterReset ==
    (/\ pc = "while"
     /\ gid \in Gids
     /\ download_queue = <<>>
     /\ ~queue_processing)
    => aria2[gid].status \notin Held

\* C8 (fallback success): when the first dispatch of the job the worker picked
\* failed as rate limited and mirror 2 passed the probe and its transfer
\* started, that job has the URL of mirror 2 and the new handle, is
\* downloading, neither completed nor failed, and no further mirror was probed.
C8_FallbackSuccess ==
    \A i \in DOMAIN download_queue :
       (/\ download_queue[i].sel
        /\ pc = "monitor"
        /\ retry_reason = "Rate limited (429)"
        /\ server_num = FirstServer + 1
        /\ gid \in Gids
        /\ gid = new_gid)
       => /\ download_queue[i].download_url.server = FirstServer + 1
          /\ download_queue[i].gid = gid
          /\ download_queue[i].downloading
          /\ ~download_queue[i].completed
          /\ download_queue[i].error = NoError
          /\ servers_tried = <<FirstServer + 1>>

\* The mirrors of the fallback, in the order they are probed.
Mirrors == [k \in 1..(ServerRangeEnd - FirstServer - 1) |-> FirstServer + k]

\* C9 (fallback exhaustion): when the dispatch of the job the worker picked
\* failed with an error to retry and every mirror failed its probe, that job
\* is failed (completed, not downloading, error set) and its error lists
\* every mirror probed.
C9_FallbackExhausted ==
    \A i \in DOMAIN download_queue :
       (/\ download_queue[i].sel
        /\ pc = "while"
        /\ retry_reason # ""
        /\ ~working_server
        /\ servers_tried = Mirrors)
       => /\ download_queue[i].completed
          /\ ~download_queue[i].downloading
          /\ download_queue[i].error = Exhausted(Mirrors, retry_reason)

\* The mirrors attempted for job i so far: those of earlier passes and, for
\* the worker's pick, those probed in this pass.
Attempted(i) ==
    download_queue[i].attempts.mirrors
        \o (IF download_queue[i].sel THEN servers_tried ELSE <<>>)

\* C11 (mirror index is monotone): for every job, the mirrors dispatched to or
\* probed for it over its lifetime are strictly increasing.
C11_MirrorMonotone ==
    \A i \in DOMAIN download_queue :
       download_queue[i].attempts.followed => Increasing(Attempted(i))

\* Job i has not ended in success: it is not completed, or it has an error.
Unfinished(i) ==
    ~download_queue[i].completed \/ download_queue[i].error # NoError

\* C12 (URL uniqueness): no two jobs of the store that have not ended in
\* success have the same download_url.
C12_UrlUnique ==
    \A i, j \in DOMAIN download_queue :
       (i # j /\ Unfinished(i) /\ Unfinished(j))
       => download_queue[i].download_url # download_queue[j].download_url

\* C13 (FIFO start order): whenever a worker step starts a pending job (sets
\* its downloading flag or gives it a transfer handle), no job before it in
\* the store is pending.
C13_FifoStart ==
    [][\A i \in DOMAIN download_queue :
          (/\ Mark \/ SetGid \/ SetMirror
           /\ Pending(download_queue[i])
           /\ download_queue'[i].downloading \/ download_queue'[i].gid # None)
          => \A j \in 1..(i - 1) : ~Pending(download_queue[j])]_vars

\* C14 (run to completion): when the worker picks a job other than the one it
\* picked before, the job it picked before is completed or failed (or is no
\* longer in the store, after a stop).
C14_RunToCompletion ==
    [][\A i, j \in DOMAIN download_queue :
          (/\ Select
           /\ pc' = "mark"
           /\ download_queue[i].sel
           /\ download_queue'[j].sel
           /\ i # j)
          => download_queue[i].completed]_vars

StaysFailed(i) ==
    /\ i \in DOMAIN download_queue'
    /\ download_queue'[i].error # NoError

\* A job whose error is set is removed from the store by the step, or its error
\* is blanked.
FailedVanishes ==
    \E i \in DOMAIN download_queue :
       download_queue[i].error # NoError /\ ~StaysFailed(i)

C18_DurableWhenFree ==
    queue_lock = "free" => disk = Serialize(download_queue)

\* The worker is between its pick and the end of the pass for it.
InPass == pc \notin {"dead", "while", "select", "save_blocked"}

C20_FallbackEndsFailed ==
    \A i \in DOMAIN download_queue :
       (/\ download_queue[i].sel
        /\ pc \in {"monitor", "while"}
        /\ retry_reason # ""
        /\ servers_tried = Mirrors
        /\ ~(new_gid \in Gids /\ gid = new_gid))
       => /\ pc = "while"
          /\ download_queue[i].completed
          /\ ~download_queue[i].downloading
          /\ download_queue[i].error # NoError

\* C21 (no self-deadlock): the worker never calls save_queue while it holds
\* queue_lock, so it is never waiting for the lock it holds itself.
C21_NoSelfDeadlock ==
    ~(pc = "save_blocked" /\ queue_lock = "worker")

\* C22 (restart re-probe): the worker adds no transfer to the engine while a
\* job other than its pick is in the store flagged downloading with a handle
\* and unfinished, as a restart leaves a job that was in progress: such a job
\* is asked about at the engine and its outcome recorded before any job is
\* dispatched.
C22_ReprobeBeforeDispatch ==
    [][(pc = "dispatch" /\ pc' = "set_gid")
       => \A i \in DOMAIN download_queue :
             (/\ download_queue[i].downloading
              /\ download_queue[i].gid \in Gids
              /\ ~download_queue[i].completed)
             => download_queue[i].sel]_vars

\* The engine still works on the transfer of item i.
Running(i) ==
    /\ download_queue[i].downloading
    /\ download_queue[i].gid \in Gids
    /\ aria2[download_queue[i].gid].status \in {"active", "waiting", "paused"}

\* C23 (worker stop condition): when the worker leaves its loop at the top of
\* an iteration, no job is pending, no job flagged downloading has a transfer
\* that still runs, and the run flag is false after the step.
C23_ExitsWhenIdle ==
    [][(Select /\ pc' = "dead")
       => /\ ~queue_processing'
          /\ \A i \in DOMAIN download_queue :
                ~Pending(download_queue[i]) /\ ~Running(i)]_vars

\* C24 (flag/worker consistency): while the run flag is true a worker thread
\* is alive, so a start is refused as "already processing" only while a worker
\* is there.
C24_FlagMeansWorker ==
    queue_processing => pc # "dead"

\* C25 (single worker): at most one process_queue thread is alive at any time,
\* whatever the interleaving of start, stop and enqueue requests.
C25_SingleWorker ==
    Cardinality({t \in Workers : IsAlive(t)}) <= 1

\* C26 (stop survives a following start): a worker monitoring a transfer whose
\* job a stop request took from the store leaves the monitoring loop at a later
\* check point, also when a start request was accepted before that check point.
C26_StopSurvivesStart ==
    (pc = "monitor" /\ FirstByGid(download_queue, gid) = 0) ~> (pc # "monitor")

\* C27 (stop check points): once a stop request has cleared the flag, a worker
\* in the mirror loop that passes the delay before its next probe adds no
\* further transfer to the engine.
C27_StopCheckPoints ==
    [][(~queue_processing /\ servers_tried # <<>> /\ Probe)
       => FreeGids' = FreeGids]_vars

\* C28 (monitoring terminates): under fair scheduling, a worker monitoring the
\* transfer of a job of the store leaves the monitoring loop once the engine
\* reports the transfer complete, failed or removed.
C28_MonitoringTerminates ==
    (/\ pc = "monitor"
     /\ FirstByGid(download_queue, gid) # 0
     /\ aria2[gid].status \in {"complete", "error", "removed"})
    ~> (pc # "monitor")

\* Completed without error.
Done(item) == item.completed /\ item.error = NoError

Transient(g) == RetryReason(aria2[g].errorCode, ErrorMsg(aria2[g])) # ""

\* C30 (retry classification): the worker goes on to probe a mirror, after the
\* first dispatch or after a re-dispatch on a mirror, only when the error the
\* engine reports for the handle just checked is a transient one.
C30_RetryClassification ==
    [][/\ (pc = "settle" /\ pc' = "probe") => Transient(gid)
       /\ (pc = "resettle" /\ pc' = "probe") => Transient(new_gid)]_vars

\* C31 (late transient failure): when a poll of the monitoring loop finds the
\* transfer of a vimm.net job failed with a transient error, the worker goes
\* on to probe the next mirror.
C31_LateTransientFallsBack ==
    [][(/\ Monitor
        /\ queue_processing
        /\ aria2[gid].status = "error"
        /\ Transient(gid)
        /\ HasMedia(current_item.download_url)
        /\ pc' # "monitor")
       => pc' = "probe"]_vars

\* The mirror probed last in this pass.
LastTried == servers_tried[Len(servers_tried)]

C33_NoRpcUnderLock ==
    /\ queue_lock # "stop"
    /\ ~(queue_lock = "worker" /\ pc = "reprobe")

\* C34 (pre-dispatch engine check): the worker adds a transfer, at the first
\* dispatch or at a re-dispatch on a mirror, only when the engine has no
\* transfer from the same source in flight.
C34_NoDispatchWhileInFlight ==
    [][(\/ pc = "dispatch" /\ pc' = "set_gid"
        \/ pc = "probe" /\ pc' = "set_mirror")
       => \A g \in Gids : aria2[g].status \notin Held]_vars

\* C35 (infrastructure failure): no job is marked failed because the call that
\* adds its transfer raised; a job whose dispatch could not reach the engine
\* stays as it was.
C35_UnreachableLeavesJob ==
    \A i \in DOMAIN download_queue :
       ~(download_queue[i].completed /\ download_queue[i].error.kind = "add")

\* C36 (fallback keeps identity): the step that records a re-dispatch on a
\* mirror leaves every job at its position with the download_url, title and
\* game page it had.
C36_FallbackKeepsIdentity ==
    [][(pc = "set_mirror" /\ pc' = "resettle")
       => /\ Len(download_queue') = Len(download_queue)
          /\ \A i \in DOMAIN download_queue :
                /\ download_queue'[i].download_url = download_queue[i].download_url
                /\ download_queue'[i].title = download_queue[i].title
                /\ download_queue'[i].game_page_url = download_queue[i].game_page_url]_vars

\* C38 (no invalid flag combination): no job of the store is both completed
\* and downloading.
C38_NotCompletedAndDownloading ==
    \A i \in DOMAIN download_queue :
       ~(download_queue[i].completed /\ download_queue[i].downloading)

\* C39 (handle validity): while the worker probes mirrors, after it has called
\* aria2.remove for the transfer that failed and before it has added a
\* replacement, no job of the store holds the gid of that transfer.
C39_NoRemovedHandleStored ==
    pc = "probe"
    => \A i \in DOMAIN download_queue :
          download_queue[i].gid \in Gids
          => download_queue[i].gid \notin {gid, new_gid}

\* An absolute http(s) URL.
Absolute(url) == url.scheme \in {"http", "https"}
\* A URL of a dlN.vimm.net host.
OnSourceDomain(url) == url.server # 0

\* C17 (boundary validation): an enqueue whose URL is empty, not http(s) or not
\* of the source domain, or whose title has no character of a file name, leaves
\* the store, the queue file and the run flag as they were.
C17_BoundaryRejected ==
    [][\A url \in BoundaryUrls, title \in RawTitles, page \in Pages :
          (/\ QueueAdd(url, title, page)
           /\ ~Absolute(url) \/ ~OnSourceDomain(url) \/ SafeTitle(title) = <<>>)
          => UNCHANGED <<download_queue, disk, queue_processing>>]_vars

\* The path of the file with the extension of a ZIP archive.
ZipPath == FileName(file_path.base, ".zip")
\* The file under the completion check starts with a ZIP signature and its name does
\* not end in .zip, in either case.
ZipMisnamed == files[file_path] = "PK" /\ file_path.ext \notin {".zip", ".ZIP"}
\* No job's filename changes.
SameFilenames ==
    /\ DOMAIN download_queue' = DOMAIN download_queue
    /\ \A i \in DOMAIN download_queue :
          download_queue'[i].filename = download_queue[i].filename

CorrectedPathTaken ==
    /\ ActualExt(files[file_path]) # ""
    /\ Lower(file_path.ext) # ActualExt(files[file_path])
    /\ files[NewPath(files, file_path)] # "absent"

\* C37 (rename never overwrites): when a file exists at the corrected path,
\* the completion check renames nothing, leaves the directory and every
\* filename as they are, and marks the job holding the gid completed.
C37_RenameNeverOverwrites ==
    [][(CheckFile /\ CorrectedPathTaken)
       => /\ files' = files
          /\ file_path' = file_path
          /\ SameFilenames
          /\ \A i \in DOMAIN download_queue :
                download_queue[i].gid = gid
                => download_queue'[i].completed /\ ~download_queue'[i].downloading]_vars

\* After the check: the job is completed under its misleading name, next to
\* the file that was already at the corrected path.
C37_Witness ==
    /\ pc = "checked"
    /\ CorrectedPathTaken
    /\ \E i \in DOMAIN download_queue :
          /\ download_queue[i].completed
          /\ download_queue[i].filename = file_path
====
